---- MODULE Spec2Model ----
(***************************************************************************)
(* Model of the spendr API server (server/server.js): the dashboard        *)
(* summary fan-out, the credit simulate/explain chain, the insurance       *)
(* assessment route and the two metric functions.                          *)
(*                                                                         *)
(* JavaScript values are tagged records so that undefined, null, numbers,  *)
(* strings, arrays and objects can be told apart; property access on       *)
(* undefined/null is the TypeError the handlers' try blocks catch.         *)
(* Money amounts are integers in hundredths of a currency unit; time is    *)
(* counted in ticks, TicksPerDay to the day.                               *)
(***************************************************************************)
EXTENDS Integers, Sequences, FiniteSets, TLC

(* ------------------------------ bounds -------------------------------- *)

\* longest list a provider reply carries
MaxList == 2
\* longest transaction list the metric functions are applied to
MaxTx == 2
\* resolution of the clock
TicksPerDay == 2
\* the day the requests are served on
NowDay == 200
\* the most rows /debug/seed-more is followed up to
MaxRows == 5

(* --------------------------- JavaScript values ------------------------ *)

Undefined == [t |-> "undefined"]
Null == [t |-> "null"]
Num(n) == [t |-> "number", v |-> n]
Str(s) == [t |-> "string", v |-> s]
Bool(b) == [t |-> "boolean", v |-> b]
List(s) == [t |-> "list", v |-> s]
Obj(f) == [t |-> "object", v |-> f]

\* reading a property of undefined or null throws a TypeError
Nullish(o) == o.t \in {"undefined", "null"}

\* the operand of || that is replaced by the right-hand side
Falsy(o) == Nullish(o) \/ o = Str("") \/ o = Num(0)

\* o.k for an o that is neither undefined nor null
Get(o, k) ==
  CASE o.t = "object" -> IF k \in DOMAIN o.v THEN o.v[k] ELSE Undefined
    [] o.t = "list" /\ k = "length" -> Num(Len(o.v))
    [] OTHER -> Undefined

\* o?.k
OptGet(o, k) == IF Nullish(o) THEN Undefined ELSE Get(o, k)

\* o[i] for an o that is neither undefined nor null (i counted from 0)
Index(o, i) ==
  IF o.t = "list" /\ i < Len(o.v) THEN o.v[i + 1] ELSE Undefined

\* Array.isArray(o)
IsArray(o) == o.t = "list"

\* {...o}: the own properties of an object, none for null or a primitive
Spread(o) == IF o.t = "object" THEN o.v ELSE <<>>

\* JSON.stringify of an object literal, as res.json sends it: a property
\* whose value is undefined is left out
Serialize(f) == [k \in {x \in DOMAIN f : f[x] # Undefined} |-> f[k]]

(* ------------------------------ metrics ------------------------------- *)

WindowDays == 90
Months == 3

Now == NowDay * TicksPerDay + 1

RECURSIVE SumSeq(_)
SumSeq(s) == IF s = <<>> THEN 0 ELSE Head(s) + SumSeq(Tail(s))

RECURSIVE FilterTx(_, _, _)
FilterTx(tx, from, sign) ==
  IF tx = <<>> THEN <<>>
  ELSE LET t == Head(tx)
           keep == t.date >= from /\ (IF sign > 0 THEN t.amount > 0 ELSE t.amount < 0)
       IN (IF keep THEN <<t.amount>> ELSE <<>>) \o FilterTx(Tail(tx), from, sign)

\* Math.round(n / d) for d > 0: the nearest integer, a tie going to +infinity
MathRound(n, d) == (2 * n + d) \div (2 * d)

Abs(n) == IF n < 0 THEN -n ELSE n

\* from = now - 90 days
WindowFrom == Now - WindowDays * TicksPerDay

monthlyIncomeArray(tx) ==
  MathRound(SumSeq(FilterTx(tx, WindowFrom, 1)), Months * 100)

monthlyBaselineSpendArray(tx) ==
  Abs(MathRound(SumSeq(FilterTx(tx, WindowFrom, -1)), Months * 100))

\* new Date(t.date).toISOString().slice(0,10): the date cut to its day
NormDate(d) == d - (d % TicksPerDay)

\* the normalized records handed to the providers and to the metric functions
Normalize(tx) == [i \in 1..Len(tx) |-> [date |-> NormDate(tx[i].date), amount |-> tx[i].amount]]

(* ------------------------------- state -------------------------------- *)

VARIABLES
  sessionUserId,  \* req.session.userId, NoUser when the session has none
  txns,           \* the user's Transaction rows
  fixture,        \* FIXTURE_TX
  creditAcct,     \* the user's Account row of type credit, NoAcct when none
  budget,         \* the user's Budget row, NoBudget when none
  op,             \* the route of the request being served
  pc,             \* where its handler stands
  handler,        \* the route handler that took the request
  calls,          \* the provider calls of the request
  loc,            \* the handler's local variables
  resp,           \* the response sent
  mTx,            \* the transaction list the metric functions are applied to
  mOut,           \* the two results of the metric functions
  prev            \* the calls and the response of an earlier summary request

vars == <<sessionUserId, txns, fixture, creditAcct, budget, op, pc, handler, calls, loc, resp, mTx, mOut, prev>>

dbVars == <<txns, fixture, creditAcct, budget>>
metricVars == <<mTx, mOut>>
histVars == <<prev>>

NoUser == 0
UserId == 1
NoAcct == [t |-> "none"]
NoBudget == [t |-> "none"]
NoPrev == [t |-> "none"]
NoResp == [status |-> 0, body |-> <<>>]
NoMetrics == [done |-> FALSE, input |-> <<>>, income |-> 0, baseline |-> 0]

SummaryCalls == {"subscriptions", "spikes", "movers", "credit", "narrative"}
ParallelCalls == {"subscriptions", "spikes", "movers"}
Providers == SummaryCalls \cup {"simulate", "explain", "insurance", "forecast"}

Idle == [status |-> "idle", req |-> Undefined, data |-> Undefined, timeout |-> 0, n |-> 0]
NoCalls == [c \in Providers |-> Idle]

NoLocals ==
  [income |-> Undefined, baseline |-> Undefined, subscriptions |-> Undefined,
   spikes |-> Undefined, movers |-> Undefined, credit |-> Undefined,
   weekly_narrative |-> Undefined, explanation |-> Undefined, body |-> Undefined,
   percent |-> Undefined]

(* --------------------------- stored data ------------------------------ *)

\* a row as /debug/seed-demo writes it: payroll in, rent and a bill out
DemoTx ==
  << [date |-> Now - 2 * TicksPerDay, amount |-> 190000],
     [date |-> Now - TicksPerDay, amount |-> -160000],
     [date |-> Now - TicksPerDay, amount |-> -6000] >>

LedgerSamples == {<<>>, DemoTx}
FixtureSamples == {<<>>, <<[date |-> Now - TicksPerDay, amount |-> 5000]>>}

\* the stored rows with the fixture: no row and no fixture file, no row and
\* a fixture, rows and a fixture
StoreSamples ==
  {st \in [txns : LedgerSamples, fixture : FixtureSamples] :
     st.txns # <<>> => st.fixture # <<>>}

\* the credit account: none, as getOrCreateDefaultAccounts creates it, and
\* with each field stored positive, stored not positive and not stored
\* (apr in hundredths of a percent)
AcctSamples ==
  {NoAcct,
   [t |-> "acct", balance |-> Num(0), apr |-> Null, creditLimit |-> Null],
   [t |-> "acct", balance |-> Num(500), apr |-> Null, creditLimit |-> Num(0)],
   [t |-> "acct", balance |-> Num(-20), apr |-> Num(1999), creditLimit |-> Num(3000)]}

(* --------------------------- provider replies ------------------------- *)

ListsUpTo(elems) == UNION {[1..n -> elems] : n \in 0..MaxList}

SomeSubscription == Obj([merchant |-> Str("Netflix")])
SomeMover == Obj([category |-> Str("groceries")])
SpikeCategories == {"dining", "coffee"}
SomeSpikes == {Obj([category |-> Str(c)]) : c \in SpikeCategories}

Guardrails ==
  {Obj([utilization |-> Num(75), alerts |-> List(<<Str("High utilization")>>)])}

Simulation ==
  Obj([min_only |-> Obj([months |-> Num(30), total_interest |-> Num(250)]),
       min_plus_extra |-> Obj([months |-> Num(12), total_interest |-> Num(90)])])

\* the bodies (axios r.data) a 2xx reply of provider c may carry: JSON null,
\* an object without the expected field, and the documented shapes
ReplyBodies(c) ==
  {Null, Obj(<<>>)} \cup
  CASE c = "subscriptions" ->
         {Obj([subscriptions |-> List(l)]) : l \in ListsUpTo({SomeSubscription})}
    [] c = "spikes" -> {Obj([spikes |-> List(l)]) : l \in ListsUpTo(SomeSpikes)}
    [] c = "movers" -> {Obj([movers |-> List(l)]) : l \in ListsUpTo({SomeMover})}
    [] c = "credit" -> {Obj([guardrails |-> g]) : g \in Guardrails}
    [] c = "narrative" -> {Obj([narrative |-> Str("")]), Obj([narrative |-> Str("Busy week.")])}
    [] c = "simulate" ->
         {Obj([simulation |-> Simulation])} \cup
         {Obj([guardrails |-> g]) : g \in Guardrails} \cup
         {Obj([simulation |-> Simulation, guardrails |-> g]) : g \in Guardrails}
    [] c = "explain" -> {Obj([explanation |-> Str("Pay extra to save interest.")])}
    [] c = "forecast" ->
         {Obj([series |-> List(<<Num(400)>>), suggested_pct |-> Num(20)])}
    [] c = "insurance" ->
         {Obj([suggestions |-> Str("none")]),
          Obj([suggestions |-> List(<<>>)]),
          Obj([suggestions |-> List(<<Obj([type |-> Str("renters")])>>)])}

\* how a call can settle: the promise rejects (timeout, network error,
\* non-2xx status) or fulfils with a body
Outcomes(c) ==
  {[status |-> "rejected", data |-> Undefined]} \cup
  {[status |-> "fulfilled", data |-> b] : b \in ReplyBodies(c)}

Settled(c) == calls[c].status \in {"fulfilled", "rejected"}

\* the timeout of the axios instance of the summary and of the first
\* insurance handler
AiTimeout == 8000

\* the timeout a call to provider c is posted with, 0 (the axios default)
\* standing for none: only axios.create({timeout}) and the post of the first
\* insurance handler set one
TimeoutOf(c, h) ==
  IF c \in SummaryCalls \/ (c = "insurance" /\ h = "insuranceAssess") THEN AiTimeout ELSE 0

\* a post that is sent again after the first attempt
PostTwice(cs, c, payload, h) ==
  [cs EXCEPT ![c] = [status |-> "inflight", req |-> payload, data |-> Undefined,
                     timeout |-> TimeoutOf(c, h), n |-> cs[c].n + 2]]

\* one post to provider c by handler h
Post(cs, c, payload, h) ==
  [cs EXCEPT ![c] = [status |-> "inflight", req |-> payload, data |-> Undefined,
                     timeout |-> TimeoutOf(c, h), n |-> cs[c].n + 1]]

Issue(cs, c, payload) == Post(cs, c, payload, "summary")

(* ------------------------------- Init --------------------------------- *)

InitServer ==
  /\ sessionUserId = NoUser
  /\ \E st \in StoreSamples : txns = st.txns /\ fixture = st.fixture
  /\ creditAcct \in AcctSamples
  /\ budget = NoBudget
  /\ op = "none"
  /\ pc = "idle"
  /\ handler = "none"
  /\ calls = NoCalls
  /\ loc = NoLocals
  /\ resp = NoResp

Init ==
  /\ InitServer
  /\ mTx = <<>>
  /\ mOut = NoMetrics
  /\ prev = NoPrev

(* ------------------------- session and routing ------------------------ *)

\* a guard that lets every request through
AuthSkipped == TRUE

\* requireAuth: !req.session.userId answers 401, else next()
RequireAuth == sessionUserId # NoUser

Unauthorized == [status |-> 401, body |-> [error |-> Str("auth")]]

\* the handlers in the order app.get/app.post registers them
Registered ==
  << [path |-> "/debug/seed-demo", h |-> "seedDemo"],
     [path |-> "/debug/seed-more", h |-> "seedMore"],
     [path |-> "/insurance/assess", h |-> "insuranceAssess"],
     [path |-> "/dashboard/summary", h |-> "summary"],
     [path |-> "/budgets/untouchable", h |-> "untouchable"],
     [path |-> "/credit/simulate", h |-> "simulate"],
     [path |-> "/insurance/assess", h |-> "insurancePassThrough"] >>

\* a router in which the handler registered last for a path replaces the
\* earlier ones
DispatchLast(path) ==
  LET i == CHOOSE k \in 1..Len(Registered) :
             /\ Registered[k].path = path
             /\ \A j \in (k + 1)..Len(Registered) : Registered[j].path # path
  IN Registered[i].h

\* Express hands a request to the first handler registered for its path; a
\* later one runs only if that handler calls next(), which none here does
Dispatch(path) ==
  LET i == CHOOSE k \in 1..Len(Registered) :
             /\ Registered[k].path = path
             /\ \A j \in 1..(k - 1) : Registered[j].path # path
  IN Registered[i].h

Quiet == pc \in {"idle", "done", "unhandled"}

\* res.json({ ok: true })
Ok == [status |-> 200, body |-> [ok |-> Bool(TRUE)]]

\* a successful POST /auth/signup or /auth/login
Login ==
  /\ Quiet
  /\ sessionUserId' = UserId
  /\ op' = "login"
  /\ handler' = "login"
  /\ pc' = "done"
  /\ calls' = NoCalls
  /\ loc' = NoLocals
  /\ resp' = Ok
  /\ UNCHANGED <<dbVars, metricVars, histVars>>

\* a POST /auth/signup or /auth/login that is refused (400: no email or
\* password, email exists, invalid) or whose session.regenerate fails (500):
\* the session is left as it was
LoginAnswers ==
  {[status |-> 400, body |-> [error |-> Str("invalid")]],
   [status |-> 500, body |-> [error |-> Str("session regen failed")]]}

LoginFails ==
  /\ Quiet
  /\ op' = "login"
  /\ handler' = "login"
  /\ pc' = "done"
  /\ calls' = NoCalls
  /\ loc' = NoLocals
  /\ resp' \in LoginAnswers
  /\ UNCHANGED <<sessionUserId, dbVars, metricVars, histVars>>

\* POST /auth/logout
Logout ==
  /\ Quiet
  /\ sessionUserId' = NoUser
  /\ op' = "logout"
  /\ handler' = "logout"
  /\ pc' = "done"
  /\ calls' = NoCalls
  /\ loc' = NoLocals
  /\ resp' = Ok
  /\ UNCHANGED <<dbVars, metricVars, histVars>>

\* a pending provider call settles
ProviderSettle(c) ==
  /\ calls[c].status = "inflight"
  /\ \E o \in Outcomes(c) :
       calls' = [calls EXCEPT ![c].status = o.status, ![c].data = o.data]
  /\ UNCHANGED <<sessionUserId, dbVars, op, pc, handler, loc, resp, metricVars, histVars>>

(* --------------------------- GET /dashboard/summary ------------------- *)

SummaryFailed ==
  [status |-> 500, body |-> [error |-> Str("summary_failed"), detail |-> Str("message")]]

CreditFallback ==
  Obj([utilization |-> Num(39),
       alerts |-> List(<<Str("Demo default: pay a small amount before statement close to reduce utilization.")>>)])

NarrativeFallback == Str("Stable week.")

\* a join that returns at the first settled promise, as Promise.race does
AnySettled(cs) == \E c \in cs : Settled(c)

\* Promise.allSettled resolves once every promise has settled
AllSettled(cs) == \A c \in cs : Settled(c)

\* a reduction without the [] of the rejected branch
ReduceNoFallback(call, field) ==
  IF call.status = "fulfilled" THEN Get(call.data, field) ELSE Undefined

\* a reduction that keeps a branch only when all three were fulfilled, as
\* a Promise.all join would
ReduceAllOrNothing(call, field) ==
  IF \A c \in ParallelCalls : calls[c].status = "fulfilled"
  THEN Get(call.data, field) ELSE List(<<>>)

\* xP.status === 'fulfilled' ? xP.value.data.<field> : []
Reduce(call, field) ==
  IF call.status = "fulfilled" THEN Get(call.data, field) ELSE List(<<>>)

\* the TypeError of reading .<field> of a null body
ReduceThrows(call) == call.status = "fulfilled" /\ Nullish(call.data)

\* a fallback that lets a stored 0 through
NonNegativeOr(v, dflt) == IF v.t = "number" /\ v.v >= 0 THEN v ELSE Num(dflt)

\* (v && v > 0) ? v : dflt
PositiveOr(v, dflt) == IF v.t = "number" /\ v.v > 0 THEN v ELSE Num(dflt)

CreditPayload(acct) ==
  IF acct # NoAcct
  THEN Obj([balance |-> PositiveOr(acct.balance, 780),
            apr_annual |-> PositiveOr(acct.apr, 2399),
            min_payment |-> Num(35),
            extra_payment |-> Num(0),
            credit_limit |-> PositiveOr(acct.creditLimit, 2000)])
  ELSE Obj([balance |-> Num(780), apr_annual |-> Num(2399), min_payment |-> Num(35),
            extra_payment |-> Num(0), credit_limit |-> Num(2000)])

\* the TypeError of building the metrics from an undefined or null local
MetricsThrow(l) == Nullish(l.credit) \/ Nullish(l.subscriptions) \/ Nullish(l.spikes)

\* metrics that read the utilization of the fallback object instead of the
\* reduced credit
NarrativeMetricsStale(l) ==
  [income |-> l.income,
   baseline |-> l.baseline,
   credit_utilization |-> Num(39),
   subscriptions_count |-> Get(l.subscriptions, "length"),
   top_spike_category |->
     LET c == OptGet(Index(l.spikes, 0), "category") IN IF Falsy(c) THEN Null ELSE c,
   untouchable_pct |-> Num(20)]

\* the metrics object literal (untouchable_pct 0.2 in hundredths)
NarrativeMetrics(l) ==
  [income |-> l.income,
   baseline |-> l.baseline,
   credit_utilization |-> Get(l.credit, "utilization"),
   subscriptions_count |-> Get(l.subscriptions, "length"),
   top_spike_category |->
     LET c == OptGet(Index(l.spikes, 0), "category") IN IF Falsy(c) THEN Null ELSE c,
   untouchable_pct |-> Num(20)]

SummaryBody(l) ==
  [income |-> l.income, baseline |-> l.baseline, credit |-> l.credit,
   subscriptions |-> l.subscriptions, spikes |-> l.spikes, movers |-> l.movers,
   weekly_narrative |-> l.weekly_narrative]

\* res.json({...}) of stage 7
SummaryRespond(l) ==
  /\ resp' = [status |-> 200, body |-> Serialize(SummaryBody(l))]
  /\ pc' = "done"
  /\ loc' = l

\* stage 6 up to its await: with the locals l, build the metrics and post
\* them, or fall through the catch to the response
NarrativeStage(l) ==
  LET l6 == [l EXCEPT !.weekly_narrative = NarrativeFallback] IN
  IF MetricsThrow(l6)
  THEN SummaryRespond(l6) /\ UNCHANGED calls
  ELSE /\ calls' = Issue(calls, "narrative", Obj([metrics |-> Obj(Serialize(NarrativeMetrics(l6)))]))
       /\ loc' = l6
       /\ pc' = "narrative"
       /\ UNCHANGED resp

\* the request reaches requireAuth and the handler, whose locals and calls
\* are its own
SummaryBegin ==
  /\ op' = "summary"
  /\ handler' = Dispatch("/dashboard/summary")
  /\ calls' = NoCalls
  /\ loc' = NoLocals
  /\ IF RequireAuth
     THEN pc' = "ledger" /\ resp' = NoResp
     ELSE pc' = "done" /\ resp' = Unauthorized
  /\ UNCHANGED <<sessionUserId, dbVars, metricVars>>

SummaryStart ==
  /\ Quiet
  /\ SummaryBegin
  /\ UNCHANGED histVars

\* a choice that adds the fixture rows to the stored ones
TxArrayMerged(rows) == rows \o fixture

\* txns.length ? txns : FIXTURE_TX
TxArray(rows) == IF Len(rows) > 0 THEN rows ELSE fixture

\* a ledger read that stores the demo rows when the user has none, as
\* /debug/seed-demo does
LedgerSeeds(ok) ==
  /\ op = "summary" /\ pc = "ledger"
  /\ txns' = IF txns = <<>> THEN DemoTx ELSE txns
  /\ IF ok
     THEN LET txArray == TxArray(txns)
                norm == Normalize(txArray)
            IN /\ loc' = [loc EXCEPT !.income = Num(monthlyIncomeArray(norm)),
                                     !.baseline = Num(monthlyBaselineSpendArray(norm))]
               /\ calls' = Issue(Issue(Issue(calls,
                             "subscriptions", Obj([transactions |-> Num(Len(norm))])),
                             "spikes", Obj([transactions |-> Num(Len(norm))])),
                             "movers", Obj([transactions |-> Num(Len(norm))]))
               /\ pc' = "join"
               /\ UNCHANGED resp
       ELSE /\ resp' = SummaryFailed
            /\ pc' = "done"
            /\ UNCHANGED <<calls, loc>>
  /\ UNCHANGED <<sessionUserId, fixture, creditAcct, budget, op, handler, metricVars, histVars>>

\* dbTransactions settles, fulfilled (ok) or rejected: stages 1 to 4, or the
\* outer catch
LedgerSettles(ok) ==
  /\ op = "summary" /\ pc = "ledger"
  /\ IF ok
     THEN LET txArray == TxArray(txns)
                norm == Normalize(txArray)
            IN /\ loc' = [loc EXCEPT !.income = Num(monthlyIncomeArray(norm)),
                                     !.baseline = Num(monthlyBaselineSpendArray(norm))]
               /\ calls' = Issue(Issue(Issue(calls,
                             "subscriptions", Obj([transactions |-> Num(Len(norm))])),
                             "spikes", Obj([transactions |-> Num(Len(norm))])),
                             "movers", Obj([transactions |-> Num(Len(norm))]))
               /\ pc' = "join"
               /\ UNCHANGED resp
       ELSE /\ resp' = SummaryFailed
            /\ pc' = "done"
            /\ UNCHANGED <<calls, loc>>
  /\ UNCHANGED <<sessionUserId, dbVars, op, handler, metricVars, histVars>>

SummaryLedger == \E ok \in BOOLEAN : LedgerSettles(ok)

\* the await of Promise.allSettled returns: the three reductions, the
\* fallback credit, and prisma.account.findFirst is awaited
SummaryJoin ==
  /\ op = "summary" /\ pc = "join"
  /\ AllSettled(ParallelCalls)
  /\ IF \E c \in ParallelCalls : ReduceThrows(calls[c])
     THEN /\ resp' = SummaryFailed
          /\ pc' = "done"
          /\ UNCHANGED loc
     ELSE /\ loc' = [loc EXCEPT !.subscriptions = Reduce(calls["subscriptions"], "subscriptions"),
                                !.spikes = Reduce(calls["spikes"], "spikes"),
                                !.movers = Reduce(calls["movers"], "movers"),
                                !.credit = CreditFallback]
          /\ pc' = "acct"
          /\ UNCHANGED resp
  /\ UNCHANGED <<sessionUserId, dbVars, op, handler, calls, metricVars, histVars>>

\* a read of the credit account that creates the row when there is none,
\* as getOrCreateDefaultAccounts does
AcctCreates(ok) ==
  /\ op = "summary" /\ pc = "acct"
  /\ creditAcct' = IF creditAcct = NoAcct
                   THEN [t |-> "acct", balance |-> Num(0), apr |-> Null, creditLimit |-> Null]
                   ELSE creditAcct
  /\ IF ok
       THEN /\ calls' = Issue(calls, "credit", CreditPayload(creditAcct))
            /\ pc' = "credit"
            /\ UNCHANGED <<loc, resp>>
       ELSE NarrativeStage(loc)
  /\ UNCHANGED <<sessionUserId, txns, fixture, budget, op, handler, metricVars, histVars>>

\* findFirst settles: the guardrails call is posted, or the inner catch
\* keeps the fallback and stage 6 starts
AcctSettles(ok) ==
  /\ op = "summary" /\ pc = "acct"
  /\ IF ok
       THEN /\ calls' = Issue(calls, "credit", CreditPayload(creditAcct))
            /\ pc' = "credit"
            /\ UNCHANGED <<loc, resp>>
       ELSE NarrativeStage(loc)
  /\ UNCHANGED <<sessionUserId, dbVars, op, handler, metricVars, histVars>>

SummaryAcct == \E ok \in BOOLEAN : AcctSettles(ok)

\* the guardrails call settles: credit = r.data.guardrails, or the catch
SummaryCredit ==
  /\ op = "summary" /\ pc = "credit"
  /\ Settled("credit")
  /\ LET r == calls["credit"]
         credit == IF r.status = "fulfilled" /\ ~Nullish(r.data)
                   THEN Get(r.data, "guardrails") ELSE loc.credit
     IN NarrativeStage([loc EXCEPT !.credit = credit])
  /\ UNCHANGED <<sessionUserId, dbVars, op, handler, metricVars, histVars>>

\* the narrative call settles: r.data.narrative || weekly_narrative, or
\* the catch; then the response
SummaryNarrative ==
  /\ op = "summary" /\ pc = "narrative"
  /\ Settled("narrative")
  /\ LET r == calls["narrative"]
         text == IF r.status = "fulfilled" /\ ~Nullish(r.data) /\ ~Falsy(Get(r.data, "narrative"))
                 THEN Get(r.data, "narrative") ELSE loc.weekly_narrative
     IN SummaryRespond([loc EXCEPT !.weekly_narrative = text])
  /\ UNCHANGED <<sessionUserId, dbVars, op, handler, calls, metricVars, histVars>>

(* --------------------------- POST /budgets/untouchable ---------------- *)

\* the request bodies: percent absent or given (in hundredths), with and
\* without starting_savings
UntouchableInputs ==
  {Obj(<<>>), Obj([percent |-> Num(20)]),
   Obj([percent |-> Num(35), starting_savings |-> Num(500)])}

\* const { percent, starting_savings = 350 } = req.body
StartingSavings(b) ==
  IF Get(b, "starting_savings") = Undefined THEN Num(350) ELSE Get(b, "starting_savings")

ForecastPayload(income, baseline, b) ==
  Obj(Serialize([monthly_income |-> income,
                 monthly_baseline_spend |-> baseline,
                 untouchable_pct |-> Get(b, "percent"),
                 starting_savings |-> StartingSavings(b),
                 months |-> Num(6)]))

\* what Express answers when the promise of an async handler rejects:
\* nothing (version 4), or the 500 of its default error handler (version 5)
UnhandledAnswers == {NoResp, [status |-> 500, body |-> <<>>]}

\* the handler has no try: a rejected await ends it
Unhandled ==
  /\ pc' = "unhandled"
  /\ resp' \in UnhandledAnswers

\* prisma.budget.upsert with untouchablePct = percent: the create of a row
\* needs the value, the update of one skips an undefined value
UpsertRejects(row, percent) == row = NoBudget /\ percent = Undefined

Upserted(row, percent) ==
  IF percent = Undefined THEN row ELSE [t |-> "budget", untouchablePct |-> percent]

UntStart ==
  /\ Quiet
  /\ op' = "untouchable"
  /\ handler' = Dispatch("/budgets/untouchable")
  /\ calls' = NoCalls
  /\ \E b \in UntouchableInputs :
       IF RequireAuth
       THEN /\ loc' = [NoLocals EXCEPT !.body = b, !.percent = Get(b, "percent")]
            /\ pc' = "uledger"
            /\ resp' = NoResp
       ELSE /\ loc' = NoLocals
            /\ pc' = "done"
            /\ resp' = Unauthorized
  /\ UNCHANGED <<sessionUserId, dbVars, metricVars, histVars>>

\* dbTransactions settles: the metrics of the rows as read and the forecast
\* post, or the rejection
UntLedger ==
  /\ op = "untouchable" /\ pc = "uledger"
  /\ \E ok \in BOOLEAN :
       IF ok
       THEN LET txArray == TxArray(txns)
                income == Num(monthlyIncomeArray(txArray))
                baseline == Num(monthlyBaselineSpendArray(txArray))
            IN /\ loc' = [loc EXCEPT !.income = income, !.baseline = baseline]
               /\ calls' = Post(calls, "forecast",
                                ForecastPayload(income, baseline, loc.body), "untouchable")
               /\ pc' = "forecast"
               /\ UNCHANGED resp
       ELSE Unhandled /\ UNCHANGED <<calls, loc>>
  /\ UNCHANGED <<sessionUserId, dbVars, op, handler, metricVars, histVars>>

\* a handler that stores the percent as soon as the forecast call settles,
\* whatever its outcome
UntForecastWrites ==
  /\ op = "untouchable" /\ pc = "forecast"
  /\ Settled("forecast")
  /\ budget' = Upserted(budget, loc.percent)
  /\ IF calls["forecast"].status = "fulfilled"
     THEN pc' = "upsert" /\ UNCHANGED resp
     ELSE Unhandled
  /\ UNCHANGED <<sessionUserId, txns, fixture, creditAcct, op, handler, calls, loc,
                 metricVars, histVars>>

\* the forecast call settles: the upsert is awaited, or the rejection
UntForecast ==
  /\ op = "untouchable" /\ pc = "forecast"
  /\ Settled("forecast")
  /\ IF calls["forecast"].status = "fulfilled"
     THEN pc' = "upsert" /\ UNCHANGED resp
     ELSE Unhandled
  /\ UNCHANGED <<sessionUserId, dbVars, op, handler, calls, loc, metricVars, histVars>>

\* the upsert settles: the row is written and r.data is sent, or the
\* rejection
UntUpsert ==
  /\ op = "untouchable" /\ pc = "upsert"
  /\ \E ok \in BOOLEAN :
       IF ok /\ ~UpsertRejects(budget, loc.percent)
       THEN /\ budget' = Upserted(budget, loc.percent)
            /\ resp' = [status |-> 200, body |-> Serialize(Spread(calls["forecast"].data))]
            /\ pc' = "done"
       ELSE Unhandled /\ UNCHANGED budget
  /\ UNCHANGED <<sessionUserId, txns, fixture, creditAcct, op, handler, calls, loc,
                 metricVars, histVars>>

(* --------------------------- POST /credit/simulate -------------------- *)

\* a catch that answers 200 without a simulation
SimulationDegraded == [status |-> 200, body |-> [explanation |-> Null]]

SimulationFailed == [status |-> 500, body |-> [error |-> Str("Credit simulation failed")]]

\* the request bodies: an empty one and a filled form (apr in hundredths)
SimInputs ==
  {Obj(<<>>),
   Obj([balance |-> Num(780), apr |-> Num(2399), min_payment |-> Num(35),
        extra_payment |-> Num(50), credit_limit |-> Num(2000)])}

SimPayload(b) ==
  Obj(Serialize([balance |-> Get(b, "balance"), apr_annual |-> Get(b, "apr"),
                 min_payment |-> Get(b, "min_payment"),
                 extra_payment |-> Get(b, "extra_payment"),
                 credit_limit |-> Get(b, "credit_limit")]))

\* the TypeError of building the explain payload from the body d of the
\* simulate reply
ExplainThrows(d) ==
  \/ Nullish(d)
  \/ Nullish(Get(d, "simulation"))
  \/ Nullish(Get(Get(d, "simulation"), "min_only"))
  \/ Nullish(Get(Get(d, "simulation"), "min_plus_extra"))
  \/ Nullish(Get(d, "guardrails"))

ExplainPayload(b, d) ==
  Obj(Serialize(
    [balance |-> Get(b, "balance"),
     apr_annual |-> Get(b, "apr"),
     min_months |-> Get(Get(Get(d, "simulation"), "min_only"), "months"),
     min_interest |-> Get(Get(Get(d, "simulation"), "min_only"), "total_interest"),
     plus_months |-> Get(Get(Get(d, "simulation"), "min_plus_extra"), "months"),
     plus_interest |-> Get(Get(Get(d, "simulation"), "min_plus_extra"), "total_interest"),
     utilization |-> Get(Get(d, "guardrails"), "utilization")]))

\* { ...sim.data, explanation }
SimBody(d, e) ==
  LET f == Spread(d)
  IN [k \in DOMAIN f \cup {"explanation"} |-> IF k = "explanation" THEN e ELSE f[k]]

\* res.json({ ...sim.data, explanation })
SimRespond(d, e) ==
  /\ resp' = [status |-> 200, body |-> Serialize(SimBody(d, e))]
  /\ pc' = "done"
  /\ loc' = [loc EXCEPT !.explanation = e]

SimStart ==
  /\ Quiet
  /\ op' = "simulate"
  /\ handler' = Dispatch("/credit/simulate")
  /\ \E b \in SimInputs :
       IF RequireAuth
       THEN /\ calls' = Post(NoCalls, "simulate", SimPayload(b), "simulate")
            /\ loc' = [NoLocals EXCEPT !.body = b]
            /\ pc' = "sim"
            /\ resp' = NoResp
       ELSE /\ calls' = NoCalls
            /\ loc' = NoLocals
            /\ pc' = "done"
            /\ resp' = Unauthorized
  /\ UNCHANGED <<sessionUserId, dbVars, metricVars, histVars>>

\* the simulate call settles: the outer catch, or the inner try up to its
\* await, or its catch and the response
SimSettled ==
  /\ op = "simulate" /\ pc = "sim"
  /\ Settled("simulate")
  /\ LET sim == calls["simulate"] IN
     IF sim.status = "rejected"
     THEN /\ resp' = SimulationFailed
          /\ pc' = "done"
          /\ UNCHANGED <<calls, loc>>
     ELSE IF ExplainThrows(sim.data)
          THEN SimRespond(sim.data, Null) /\ UNCHANGED calls
          ELSE /\ calls' = Post(calls, "explain", ExplainPayload(loc.body, sim.data), "simulate")
               /\ loc' = [loc EXCEPT !.explanation = Null]
               /\ pc' = "explain"
               /\ UNCHANGED resp
  /\ UNCHANGED <<sessionUserId, dbVars, op, handler, metricVars, histVars>>

\* the explain call settles: explanation = ex.data.explanation, or the
\* empty catch; then the response
ExplainSettled ==
  /\ op = "simulate" /\ pc = "explain"
  /\ Settled("explain")
  /\ LET ex == calls["explain"]
         e == IF ex.status = "fulfilled" /\ ~Nullish(ex.data)
              THEN Get(ex.data, "explanation") ELSE loc.explanation
     IN SimRespond(calls["simulate"].data, e)
  /\ UNCHANGED <<sessionUserId, dbVars, op, handler, calls, metricVars, histVars>>

(* --------------------------- POST /insurance/assess ------------------- *)

InsuranceInputs == {Obj(<<>>), Obj([renter |-> Str("yes")])}

InsStart ==
  /\ Quiet
  /\ op' = "insurance"
  /\ handler' = Dispatch("/insurance/assess")
  /\ loc' = NoLocals
  /\ \E b \in InsuranceInputs :
       IF RequireAuth
       THEN /\ calls' = Post(NoCalls, "insurance", b, Dispatch("/insurance/assess"))
            /\ pc' = "ins"
            /\ resp' = NoResp
       ELSE /\ calls' = NoCalls
            /\ pc' = "done"
            /\ resp' = Unauthorized
  /\ UNCHANGED <<sessionUserId, dbVars, metricVars, histVars>>

\* the nudge call settles. The first handler answers 200 on both paths;
\* the pass-through handler has no catch, so a rejection leaves the request
\* without a response
InsSettled ==
  /\ op = "insurance" /\ pc = "ins"
  /\ Settled("insurance")
  /\ LET r == calls["insurance"] IN
     IF handler = "insuranceAssess"
     THEN LET got == IF r.status = "fulfilled" THEN OptGet(r.data, "suggestions") ELSE Undefined
              suggestions == IF IsArray(got) THEN got ELSE List(<<>>)
          IN /\ resp' = [status |-> 200, body |-> Serialize([suggestions |-> suggestions])]
             /\ pc' = "done"
     ELSE IF r.status = "fulfilled"
          THEN /\ resp' = [status |-> 200, body |-> Serialize(Spread(r.data))]
               /\ pc' = "done"
          ELSE /\ pc' = "unhandled"
               /\ UNCHANGED resp
  /\ UNCHANGED <<sessionUserId, dbVars, op, handler, calls, loc, metricVars, histVars>>

(* --------------------------- POST /debug/seed-* ----------------------- *)

\* the rows /debug/seed-more adds, dated last month
MoreTx ==
  << [date |-> Now - 30 * TicksPerDay, amount |-> 190000],
     [date |-> Now - 30 * TicksPerDay, amount |-> -160000] >>

RECURSIVE InsertRow(_, _)
InsertRow(row, s) ==
  IF s = <<>> THEN <<row>>
  ELSE IF row.date < Head(s).date THEN <<row>> \o s
       ELSE <<Head(s)>> \o InsertRow(row, Tail(s))

\* orderBy: { date: 'asc' } of dbTransactions
RECURSIVE OrderByDate(_)
OrderByDate(s) == IF s = <<>> THEN <<>> ELSE InsertRow(Head(s), OrderByDate(Tail(s)))

\* getOrCreateDefaultAccounts: the credit account is created with balance 0
\* when the user has none
DefaultAccount(acct) ==
  IF acct = NoAcct
  THEN [t |-> "acct", balance |-> Num(0), apr |-> Null, creditLimit |-> Null]
  ELSE acct

\* data: { balance: 780, creditLimit: 2000, apr: 23.99 }
SeededAccount ==
  [t |-> "acct", balance |-> Num(780), apr |-> Num(2399), creditLimit |-> Num(2000)]

Seeded(n) == [status |-> 200, body |-> [ok |-> Bool(TRUE), inserted |-> Num(n)]]
SeedFailed == [status |-> 500, body |-> [ok |-> Bool(FALSE), error |-> Str("error")]]

SeedDemoStart ==
  /\ Quiet
  /\ op' = "seedDemo"
  /\ handler' = Dispatch("/debug/seed-demo")
  /\ calls' = NoCalls
  /\ loc' = NoLocals
  /\ IF RequireAuth
     THEN pc' = "seed" /\ resp' = NoResp
     ELSE pc' = "done" /\ resp' = Unauthorized
  /\ UNCHANGED <<sessionUserId, dbVars, metricVars, histVars>>

\* the first k of the four awaited database operations succeed (the
\* accounts, deleteMany, createMany, account.update); the next one rejects
\* and the catch answers 500, or all four succeed
SeedDemoRun ==
  /\ op = "seedDemo" /\ pc = "seed"
  /\ \E k \in 0..4 :
       /\ creditAcct' = IF k = 4 THEN SeededAccount
                        ELSE IF k >= 1 THEN DefaultAccount(creditAcct) ELSE creditAcct
       /\ txns' = IF k >= 3 THEN DemoTx ELSE IF k = 2 THEN <<>> ELSE txns
       /\ resp' = IF k = 4 THEN Seeded(Len(DemoTx)) ELSE SeedFailed
  /\ pc' = "done"
  /\ UNCHANGED <<sessionUserId, fixture, budget, op, handler, calls, loc, metricVars, histVars>>

SeedMoreStart ==
  /\ Quiet
  /\ Len(txns) + Len(MoreTx) <= MaxRows
  /\ op' = "seedMore"
  /\ handler' = Dispatch("/debug/seed-more")
  /\ calls' = NoCalls
  /\ loc' = NoLocals
  /\ IF RequireAuth
     THEN pc' = "seed" /\ resp' = NoResp
     ELSE pc' = "done" /\ resp' = Unauthorized
  /\ UNCHANGED <<sessionUserId, dbVars, metricVars, histVars>>

\* the first k of the two awaited database operations succeed (the
\* accounts, createMany)
SeedMoreRun ==
  /\ op = "seedMore" /\ pc = "seed"
  /\ \E k \in 0..2 :
       /\ creditAcct' = IF k >= 1 THEN DefaultAccount(creditAcct) ELSE creditAcct
       /\ txns' = IF k = 2 THEN OrderByDate(txns \o MoreTx) ELSE txns
       /\ resp' = IF k = 2 THEN Seeded(Len(MoreTx)) ELSE SeedFailed
  /\ pc' = "done"
  /\ UNCHANGED <<sessionUserId, fixture, budget, op, handler, calls, loc, metricVars, histVars>>

(* --------------------------- metric functions ------------------------- *)

\* dates on both sides of each end of the window, amounts of both signs
\* whose thirds fall on and off a half
TxDates == {WindowFrom - TicksPerDay, WindowFrom, Now - TicksPerDay, Now + TicksPerDay}
TxAmounts == {190000, 150, -450, -166000}
TxSamples == [date : TxDates, amount : TxAmounts]
TxLists == UNION {[1..n -> TxSamples] : n \in 0..MaxTx}

InitMetrics ==
  /\ sessionUserId = NoUser
  /\ txns = <<>>
  /\ fixture = <<>>
  /\ creditAcct = NoAcct
  /\ budget = NoBudget
  /\ op = "none"
  /\ pc = "idle"
  /\ handler = "none"
  /\ calls = NoCalls
  /\ loc = NoLocals
  /\ resp = NoResp
  /\ mTx \in TxLists
  /\ mOut = NoMetrics
  /\ prev = NoPrev

Measure(tx) ==
  [done |-> TRUE, input |-> tx,
   income |-> monthlyIncomeArray(tx), baseline |-> monthlyBaselineSpendArray(tx)]

\* the two functions on the rows as read (POST /budgets/untouchable)
MetricsOfRows ==
  /\ ~mOut.done
  /\ mOut' = Measure(mTx)
  /\ UNCHANGED <<sessionUserId, dbVars, op, pc, handler, calls, loc, resp, mTx, histVars>>

\* the two functions on the normalized rows (GET /dashboard/summary)
MetricsOfNorm ==
  /\ ~mOut.done
  /\ mOut' = Measure(Normalize(mTx))
  /\ UNCHANGED <<sessionUserId, dbVars, op, pc, handler, calls, loc, resp, mTx, histVars>>

(* ----------------------------- specification -------------------------- *)

Next ==
  \/ Login
  \/ LoginFails
  \/ Logout
  \/ SummaryStart
  \/ SummaryLedger
  \/ SummaryJoin
  \/ SummaryAcct
  \/ SummaryCredit
  \/ SummaryNarrative
  \/ UntStart
  \/ UntLedger
  \/ UntForecast
  \/ UntUpsert
  \/ SimStart
  \/ SimSettled
  \/ ExplainSettled
  \/ InsStart
  \/ InsSettled
  \/ \E c \in Providers : ProviderSettle(c)

Spec == Init /\ [][Next]_vars

NextMetrics == MetricsOfRows \/ MetricsOfNorm

MetricsSpec == InitMetrics /\ [][NextMetrics]_vars

(* ---------------- two summary requests in a row, same replies --------- *)

\* the stored data of the repeated requests, the user logged in or not
InitIdem ==
  /\ sessionUserId \in {NoUser, UserId}
  /\ txns \in LedgerSamples
  /\ fixture \in FixtureSamples \ {<<>>}
  /\ creditAcct \in {a \in AcctSamples : a = NoAcct \/ a.balance = Num(500)}
  /\ budget = NoBudget
  /\ op = "none"
  /\ pc = "idle"
  /\ handler = "none"
  /\ calls = NoCalls
  /\ loc = NoLocals
  /\ resp = NoResp
  /\ mTx = <<>>
  /\ mOut = NoMetrics
  /\ prev = NoPrev

\* the request before this one reached the response of stage 7, so it read
\* the ledger and the credit account
PrevLedgerOk == prev.calls["subscriptions"].status # "idle"
PrevAcctOk == prev.calls["credit"].status # "idle"

\* the first request
SummaryFirst == op = "none" /\ SummaryStart

\* the next request arrives once the last is answered, which is remembered
SummaryAgain ==
  /\ op = "summary" /\ pc = "done"
  /\ prev' = [calls |-> calls, resp |-> resp]
  /\ SummaryBegin

\* the ledger read of a repeated request settles as it did the last time,
\* no data having changed
LedgerAgain ==
  \E ok \in BOOLEAN :
    /\ prev # NoPrev => ok = PrevLedgerOk
    /\ LedgerSettles(ok)

\* likewise the read of the credit account
AcctAgain ==
  \E ok \in BOOLEAN :
    /\ (prev # NoPrev /\ prev.resp.status = 200) => ok = PrevAcctOk
    /\ AcctSettles(ok)

\* what provider c may answer: what it answered to the same request the
\* last time, else anything
Replies(c) ==
  IF prev # NoPrev /\ prev.calls[c].status \in {"fulfilled", "rejected"}
                  /\ prev.calls[c].req = calls[c].req
  THEN {[status |-> prev.calls[c].status, data |-> prev.calls[c].data]}
  ELSE Outcomes(c)

SameReply(c) ==
  /\ calls[c].status = "inflight"
  /\ \E o \in Replies(c) :
       calls' = [calls EXCEPT ![c].status = o.status, ![c].data = o.data]
  /\ UNCHANGED <<sessionUserId, dbVars, op, pc, handler, loc, resp, metricVars, histVars>>

NextIdem ==
  \/ SummaryFirst
  \/ SummaryAgain
  \/ LedgerAgain
  \/ SummaryJoin
  \/ AcctAgain
  \/ SummaryCredit
  \/ SummaryNarrative
  \/ \E c \in SummaryCalls : SameReply(c)

IdemSpec == InitIdem /\ [][NextIdem]_vars

(* ---------------- every route, the seed routes included --------------- *)

\* a server started with no stored row, no credit account and no budget
InitAuth ==
  /\ Init
  /\ txns = <<>>
  /\ fixture # <<>>
  /\ creditAcct = NoAcct

NextAuth ==
  \/ Next
  \/ SeedDemoStart
  \/ SeedDemoRun
  \/ SeedMoreStart
  \/ SeedMoreRun

AuthSpec == InitAuth /\ [][NextAuth]_vars

(* ------------------------------ properties ---------------------------- *)

SummaryFields ==
  {"income", "baseline", "credit", "subscriptions", "spikes", "movers", "weekly_narrative"}

\* the field of its reply each summary provider is read for
ExpectedField(c) ==
  CASE c = "credit" -> "guardrails"
    [] c = "narrative" -> "narrative"
    [] OTHER -> c

\* a reply body of the documented shape
WellFormed(c, d) ==
  /\ d.t = "object"
  /\ ExpectedField(c) \in DOMAIN d.v
  /\ d.v[ExpectedField(c)].t =
       (CASE c = "credit" -> "object" [] c = "narrative" -> "string" [] OTHER -> "list")

\* a 2xx reply whose body is an object without the expected field
LacksField(c) ==
  /\ calls[c].status = "fulfilled"
  /\ calls[c].data.t = "object"
  /\ ExpectedField(c) \notin DOMAIN calls[c].data.v

\* a summary request that passed requireAuth and whose ledger read
\* succeeded has been answered
SummaryAnswered ==
  op = "summary" /\ pc = "done" /\ calls["subscriptions"].status # "idle"

Has(body, k, v) == k \in DOMAIN body /\ body[k] = v

\* C1: whatever subset of the five summary calls rejects, the others
\* replying in the documented shape, a summary whose ledger read succeeded
\* answers 200 with all seven fields, each rejected branch at its fallback.
C1_RejectionsFallBack ==
  (SummaryAnswered /\ \A c \in SummaryCalls :
                        calls[c].status = "fulfilled" => WellFormed(c, calls[c].data))
  => /\ resp.status = 200
     /\ DOMAIN resp.body = SummaryFields
     /\ \A c \in ParallelCalls :
          calls[c].status = "rejected" => resp.body[c] = List(<<>>)
     /\ calls["credit"].status = "rejected" => resp.body["credit"] = CreditFallback
     /\ calls["narrative"].status = "rejected"
          => resp.body["weekly_narrative"] = NarrativeFallback

C1_Witness ==
  /\ SummaryAnswered
  /\ resp.status = 200
  /\ calls["subscriptions"].status = "rejected"
  /\ calls["credit"].status = "rejected"
  /\ calls["narrative"].status = "rejected"
  /\ calls["spikes"].status = "fulfilled" /\ WellFormed("spikes", calls["spikes"].data)
  /\ calls["movers"].status = "rejected"

\* C2: a 2xx reply without its expected field leaves the branch at its
\* fallback, so subscriptions, spikes, movers and credit are always sent.
C2_MissingFieldFallsBack ==
  (SummaryAnswered /\ resp.status = 200)
  => /\ \A c \in ParallelCalls : LacksField(c) => Has(resp.body, c, List(<<>>))
     /\ LacksField("credit") => Has(resp.body, "credit", CreditFallback)
     /\ {"subscriptions", "spikes", "movers", "credit"} \subseteq DOMAIN resp.body

\* C3: the summary answers 500 only when the ledger read failed; no outcome
\* of a provider call makes it answer anything but 200.
C3_OnlyLedgerFailureFails ==
  (op = "summary" /\ pc = "done" /\ calls["subscriptions"].status # "idle")
  => resp.status = 200

\* C4: the narrative call is issued only once the subscriptions and spikes
\* calls have settled and the guardrails call, when one was made, has
\* settled too: none of the three is in flight at that time or later.
C4_NarrativeAfterSettle ==
  calls["narrative"].status # "idle"
  => /\ Settled("subscriptions")
     /\ Settled("spikes")
     /\ Settled("credit") \/ calls["credit"].status = "idle"

C4_Witness ==
  /\ calls["narrative"].status = "inflight"
  /\ Settled("subscriptions") /\ Settled("spikes") /\ Settled("credit")

\* the metrics the narrative provider was sent
SentMetrics == calls["narrative"].req.v["metrics"]

\* C5: the metrics sent to the narrative provider equal the reduced values
\* the response carries: the length of subscriptions, the category of the
\* first spike or null, the utilization of credit (39 on fallback), income
\* and baseline.
C5_MetricsAreReduced ==
  (SummaryAnswered /\ calls["narrative"].status # "idle")
  => /\ resp.status = 200
     /\ Get(SentMetrics, "subscriptions_count") = Num(Len(resp.body["subscriptions"].v))
     /\ Get(SentMetrics, "top_spike_category") =
          (IF resp.body["spikes"].v = <<>> THEN Null
           ELSE resp.body["spikes"].v[1].v["category"])
     /\ Get(SentMetrics, "credit_utilization") = Get(resp.body["credit"], "utilization")
     /\ calls["credit"].status # "fulfilled"
          => Get(SentMetrics, "credit_utilization") = Num(39)
     /\ Get(SentMetrics, "income") = resp.body["income"]
     /\ Get(SentMetrics, "baseline") = resp.body["baseline"]

C5_Witness ==
  /\ SummaryAnswered
  /\ calls["narrative"].status = "fulfilled"
  /\ Len(resp.body["subscriptions"].v) = 2
  /\ Len(resp.body["spikes"].v) = 2
  /\ calls["credit"].status = "fulfilled"
  /\ Get(resp.body["credit"], "utilization") = Num(75)
  /\ resp.body["income"] = Num(633)

\* a credit-simulate request that passed requireAuth has been answered
SimAnswered == op = "simulate" /\ pc = "done" /\ calls["simulate"].status # "idle"

\* C6: explainCredit is issued only after simulateCredit has settled, and a
\* rejected simulateCredit ends the request with 500 'Credit simulation
\* failed' without explainCredit ever being called.
C6_SimulateBeforeExplain ==
  /\ calls["explain"].status # "idle" => calls["simulate"].status = "fulfilled"
  /\ (op = "simulate" /\ calls["simulate"].status = "rejected")
       => calls["explain"].status = "idle"
  /\ (SimAnswered /\ calls["simulate"].status = "rejected")
       => resp = [status |-> 500, body |-> [error |-> Str("Credit simulation failed")]]

C6_Witness ==
  /\ SimAnswered
  /\ calls["simulate"].status = "rejected"
  /\ resp.status = 500

\* the simulate reply carried both documented fields
SimWellFormed ==
  /\ calls["simulate"].status = "fulfilled"
  /\ calls["simulate"].data.t = "object"
  /\ {"simulation", "guardrails"} \subseteq DOMAIN calls["simulate"].data.v

\* the explain call failed: it rejected, or its 2xx body has no explanation
ExplainFailed ==
  \/ calls["explain"].status = "rejected"
  \/ /\ calls["explain"].status = "fulfilled"
     /\ Get(calls["explain"].data, "explanation") = Undefined

\* C7: when simulateCredit succeeds and explainCredit fails in any way, the
\* request answers 200 with the simulation and guardrails of the simulate
\* reply and an explanation key whose value is null.
C7_ExplainFailureYieldsNull ==
  (SimAnswered /\ SimWellFormed /\ ExplainFailed)
  => /\ resp.status = 200
     /\ Has(resp.body, "simulation", calls["simulate"].data.v["simulation"])
     /\ Has(resp.body, "guardrails", calls["simulate"].data.v["guardrails"])
     /\ Has(resp.body, "explanation", Null)

\* C8: a 2xx simulate reply without simulation or without guardrails is a
\* failure of simulateCredit: the request fails instead of answering 200.
C8_MalformedSimulationFails ==
  (SimAnswered /\ calls["simulate"].status = "fulfilled" /\ ~SimWellFormed)
  => resp.status = 500

\* an insurance request that passed requireAuth has had its call settle
\* and its handler run
InsHandled ==
  op = "insurance" /\ pc \in {"done", "unhandled"} /\ calls["insurance"].status # "idle"

\* C9: every insurance request is taken by the first handler registered,
\* and whenever the provider call rejects or its body carries no list of
\* suggestions the answer is 200 with exactly {suggestions: []}.
C9_InsuranceNeverFails ==
  /\ op = "insurance" => handler = "insuranceAssess" /\ pc # "unhandled"
  /\ InsHandled
       => /\ resp.status = 200
          /\ DOMAIN resp.body = {"suggestions"}
          /\ (\/ calls["insurance"].status = "rejected"
              \/ ~IsArray(OptGet(calls["insurance"].data, "suggestions")))
               => resp.body = [suggestions |-> List(<<>>)]

C9_Witness ==
  /\ InsHandled
  /\ calls["insurance"].status = "rejected"
  /\ resp = [status |-> 200, body |-> [suggestions |-> List(<<>>)]]

C9_WitnessNotAList ==
  /\ InsHandled
  /\ calls["insurance"].status = "fulfilled"
  /\ calls["insurance"].data = Obj([suggestions |-> Str("none")])
  /\ resp = [status |-> 200, body |-> [suggestions |-> List(<<>>)]]

\* a row dated outside the trailing 90 days that end now
OutsideWindow(t) == t.date < WindowFrom \/ t.date > Now

\* C10: both metrics are non-negative integers, and both are 0 when every
\* row is dated outside the 90-day window.
C10_MetricsNonNegativeZeroOutside ==
  mOut.done
  => /\ mOut.income \in Nat
     /\ mOut.baseline \in Nat
     /\ (\A i \in 1..Len(mOut.input) : OutsideWindow(mOut.input[i]))
          => mOut.income = 0 /\ mOut.baseline = 0

\* n / d for d > 0 rounded to the nearest integer, a tie going away from zero
RoundHalfAway(n, d) ==
  IF n >= 0 THEN (2 * n + d) \div (2 * d) ELSE -((2 * (-n) + d) \div (2 * d))

\* a row dated within the trailing 90 days that end now
InWindow(t) == ~OutsideWindow(t)

\* the amounts in hundredths of the in-window rows of one sign, summed
WindowSum(tx, sign) ==
  SumSeq([i \in 1..Len(SelectSeq(tx, LAMBDA t : InWindow(t) /\ t.amount * sign > 0))
            |-> SelectSeq(tx, LAMBDA t : InWindow(t) /\ t.amount * sign > 0)[i].amount])

\* C11: with no row dated after now, income is the sum of the positive
\* in-window amounts over 3 and baseline is the magnitude of the sum of the
\* negative in-window amounts over 3, each rounded half away from zero.
C11_RoundsHalfAwayFromZero ==
  (mOut.done /\ \A i \in 1..Len(mOut.input) : mOut.input[i].date <= Now)
  => /\ mOut.income = RoundHalfAway(WindowSum(mOut.input, 1), Months * 100)
     /\ mOut.baseline = RoundHalfAway(Abs(WindowSum(mOut.input, -1)), Months * 100)

\* C12: only the rows dated within the 90 days that end now count: the two
\* results are those of the same rows with every row dated more than 90 days
\* before now, or after now, taken away.
C12_WindowEndsNow ==
  mOut.done
  => /\ mOut.income = monthlyIncomeArray(SelectSeq(mOut.input, InWindow))
     /\ mOut.baseline = monthlyBaselineSpendArray(SelectSeq(mOut.input, InWindow))

\* C13: the handler goes past the join only when the subscriptions, spikes
\* and movers calls have all settled, and whichever of them reject, the
\* request still answers 200 with, for each branch that replied in the
\* documented shape, exactly the list its provider sent.
C13_WaitForAllKeepsBranches ==
  /\ (op = "summary" /\ pc \in {"acct", "credit", "narrative"})
       => \A c \in ParallelCalls : calls[c].status \in {"fulfilled", "rejected"}
  /\ (SummaryAnswered /\ \A c \in ParallelCalls :
                           calls[c].status = "rejected" \/ WellFormed(c, calls[c].data))
       => /\ resp.status = 200
          /\ \A c \in ParallelCalls :
               calls[c].status = "fulfilled" => Has(resp.body, c, calls[c].data.v[c])

C13_Witness ==
  /\ SummaryAnswered
  /\ calls["subscriptions"].status = "rejected"
  /\ calls["spikes"].status = "fulfilled"
  /\ calls["movers"].status = "fulfilled"
  /\ resp.status = 200
  /\ WellFormed("spikes", calls["spikes"].data)
  /\ Len(resp.body["spikes"].v) = 2
  /\ Has(resp.body, "movers", List(<<SomeMover>>))

C15_EveryCallHasTimeout ==
  \A c \in Providers : calls[c].status = "inflight" => calls[c].timeout > 0

\* C16: within one summary request each of the five providers has been
\* posted to at most once, and within one simulate request the simulate and
\* explain endpoints at most once each, whatever the calls' outcomes.
C16_NoRetries ==
  /\ op = "summary" => \A c \in SummaryCalls : calls[c].n <= 1
  /\ op = "simulate" => calls["simulate"].n <= 1 /\ calls["explain"].n <= 1

C16_Witness ==
  /\ SummaryAnswered
  /\ \A c \in SummaryCalls : calls[c].n = 1
  /\ calls["subscriptions"].status = "rejected"
  /\ calls["narrative"].status = "rejected"

C16_WitnessSimulate ==
  /\ SimAnswered
  /\ calls["simulate"].n = 1
  /\ calls["explain"].n = 1
  /\ calls["explain"].status = "rejected"

\* the stored value of a field of the credit account when it is a positive
\* number, else the default
StoredOr(field, dflt) ==
  IF creditAcct # NoAcct /\ creditAcct[field].t = "number" /\ creditAcct[field].v > 0
  THEN creditAcct[field] ELSE Num(dflt)

\* C17: the guardrails request carries the stored balance, APR and limit,
\* each replaced on its own by 780, 23.99 and 2000 exactly when it is absent
\* or not positive, with min_payment 35 and extra_payment 0; without a
\* credit account it carries the three defaults.
C17_CreditPayloadDefaults ==
  (op = "summary" /\ calls["credit"].status # "idle")
  => calls["credit"].req =
       Obj([balance |-> StoredOr("balance", 780),
            apr_annual |-> StoredOr("apr", 2399),
            min_payment |-> Num(35),
            extra_payment |-> Num(0),
            credit_limit |-> StoredOr("creditLimit", 2000)])

C17_Witness ==
  /\ op = "summary"
  /\ creditAcct # NoAcct
  /\ creditAcct.balance = Num(500) /\ creditAcct.creditLimit = Num(0)
  /\ calls["credit"].status # "idle"
  /\ calls["credit"].req.v.balance = Num(500)
  /\ calls["credit"].req.v.apr_annual = Num(2399)
  /\ calls["credit"].req.v.credit_limit = Num(2000)

C17_WitnessNoAccount ==
  /\ op = "summary"
  /\ creditAcct = NoAcct
  /\ calls["credit"].status # "idle"

\* C19: no step of a summary or of a simulate request, from its arrival to
\* its answer and on every path, changes the stored transactions, the stored
\* credit account or the stored budget.
C19_NoPersistence ==
  [][op' \in {"summary", "simulate"} => UNCHANGED <<txns, creditAcct, budget>>]_vars

C19_Witness ==
  /\ SummaryAnswered
  /\ resp.status = 500
  /\ budget # NoBudget
  /\ creditAcct = NoAcct
  /\ txns # <<>>

C19_WitnessSimulate ==
  /\ SimAnswered
  /\ resp.status = 200
  /\ budget # NoBudget

\* the rows the ledger read stands for: the stored ones when there is one,
\* else the fixture
LedgerChoice == IF txns # <<>> THEN txns ELSE fixture

\* C20: the summary and the untouchable forecast both work on the stored
\* transactions whenever there is one and on the fixture only when there is
\* none: the summary's income and baseline, the rows it sends, and the
\* income and baseline of the forecast request are those of that choice.
C20_PersistedElseFixture ==
  /\ (op = "summary" /\ calls["subscriptions"].status # "idle")
       => /\ loc.income = Num(monthlyIncomeArray(Normalize(LedgerChoice)))
          /\ loc.baseline = Num(monthlyBaselineSpendArray(Normalize(LedgerChoice)))
          /\ \A c \in ParallelCalls :
               calls[c].req = Obj([transactions |-> Num(Len(LedgerChoice))])
  /\ (op = "untouchable" /\ calls["forecast"].status # "idle")
       => /\ Get(calls["forecast"].req, "monthly_income")
               = Num(monthlyIncomeArray(LedgerChoice))
          /\ Get(calls["forecast"].req, "monthly_baseline_spend")
               = Num(monthlyBaselineSpendArray(LedgerChoice))

C20_Witness ==
  /\ op = "untouchable"
  /\ calls["forecast"].status # "idle"
  /\ txns # <<>> /\ fixture # <<>>
  /\ Get(calls["forecast"].req, "monthly_income") = Num(633)

C20_WitnessFixture ==
  /\ SummaryAnswered
  /\ txns = <<>> /\ fixture # <<>>
  /\ loc.income = Num(17)

NoPercent == op = "untouchable" /\ loc.body # Undefined /\ loc.percent = Undefined

\* C21: an untouchable request without a percent is refused: no forecast
\* call is ever posted for it and it is never answered 200.
C21_MissingPercentRefused ==
  NoPercent
  => /\ calls["forecast"].status = "idle"
     /\ resp.status # 200

\* C22: the stored budget changes only in a step of the untouchable handler
\* taken after its forecast call was fulfilled, so a failed call leaves it
\* as it was; and a request that carried a percent is answered 200 only
\* with that percent stored, in a row created or updated.
C22_BudgetAfterForecast ==
  [][/\ budget' # budget
         => op = "untouchable" /\ calls["forecast"].status = "fulfilled"
     /\ (op' = "untouchable" /\ pc' = "done" /\ resp'.status = 200
           /\ loc'.percent # Undefined)
         => budget' = [t |-> "budget", untouchablePct |-> loc'.percent]]_vars

C22_Witness ==
  /\ op = "untouchable" /\ pc = "done"
  /\ resp.status = 200
  /\ loc.percent = Num(35)
  /\ budget = [t |-> "budget", untouchablePct |-> Num(35)]

C22_WitnessFailed ==
  /\ op = "untouchable" /\ pc = "unhandled"
  /\ calls["forecast"].status = "rejected"
  /\ loc.percent = Num(35)
  /\ budget = [t |-> "budget", untouchablePct |-> Num(20)]

\* the operations registered behind requireAuth
GuardedOps == {"summary", "untouchable", "simulate", "insurance", "seedDemo", "seedMore"}

\* C23: a guarded operation invoked on a session without a userId is
\* answered 401 {error: 'auth'} at once, with no ledger read, no provider
\* call and no stored row changed; and the session gains a userId only in a
\* login or signup answered {ok: true} and loses it only in a logout.
C23_AuthGuards ==
  [][/\ (op' \in GuardedOps /\ sessionUserId' = NoUser)
         => /\ resp' = [status |-> 401, body |-> [error |-> Str("auth")]]
            /\ pc' = "done"
            /\ loc' = NoLocals
            /\ \A c \in Providers : calls'[c].status = "idle"
            /\ UNCHANGED <<txns, creditAcct, budget>>
     /\ sessionUserId' # sessionUserId
         => IF sessionUserId' = NoUser
            THEN op' = "logout"
            ELSE /\ op' = "login"
                 /\ resp' = [status |-> 200, body |-> [ok |-> Bool(TRUE)]]]_vars

C23_Witness ==
  /\ op = "seedDemo"
  /\ sessionUserId = NoUser
  /\ resp.status = 401
  /\ txns = DemoTx
  /\ budget # NoBudget

C23_WitnessSummary ==
  /\ op = "summary"
  /\ sessionUserId = NoUser
  /\ resp.status = 401
  /\ creditAcct = SeededAccount

====
